---- MODULE Spec2Model ----
(***************************************************************************)
(* Model of because/synth/gen_data.py: the synthetic data generator Gen    *)
(* (construction, the lazy samples() generator, getSEM()) and the module   *)
(* level parameter store (NOISES, COEFS, the occurrence counters and the   *)
(* run statistics) with its hooks noise(), data() and coef().              *)
(*                                                                         *)
(* Numbers are integers in units of 1e-4, so that round(x, 3) is a real    *)
(* operation (Round3).  A generator frame is single threaded: while one    *)
(* pull is running (cur # 0) nothing else runs.  Names assigned by the     *)
(* equations live in the generator frame (exec without explicit            *)
(* namespaces inside a function writes the frame's locals), one frame per  *)
(* samples() call.                                                         *)
(***************************************************************************)
EXTENDS Integers, Sequences, FiniteSets, TLC

(* ------------------------------ bounds -------------------------------- *)
\* number of Gen(...) constructions that return an instance
MaxGens == 2
\* number of samples() calls
MaxSeqs == 2
\* largest count argument of samples()
MaxCount == 2
\* outcomes offered to one random draw (see NoiseDraw, CoefDraw)
MaxDraws == 2

(* ------------------------- program constants -------------------------- *)
\* gen_data.py:18  MIN_COEF = .1   (units of 1e-4)
MIN_COEF == 1000
\* gen_data.py:22  MIN_STD = .1
MIN_STD == 1000
\* gen_data.py:20  MEAN_MEAN = 0.0
MEAN_MEAN == 0
\* gen_data.py:243 DATA_OFFSET = 1.000
DATA_OFFSET == 10000
\* gen_data.py:250,252  10**100, the initial smallestStd / smallestCoef:
\* a value above every value a draw can produce
HUGE == 1000000000
\* spacing of the modelled exponential() outcomes (1e-4 units; 7 is not a
\* multiple of 10, so rounding to 3 decimals changes the value)
ExpStep == 7
\* gen_data.py:29
DISTRS == <<"lognormal", "laplace", "logistic", "gumbel">>

NoneVal == "None"
Undefined == "undefined"

\* round(x, 3) for x >= 0 in units of 1e-4 (no modelled draw is a tie)
Round3(x) == ((x + 5) \div 10) * 10

\* the empty dict {}
EmptyDict == [k \in {} |-> 0]

\* d[k] = v on a dict
DictSet(d, k, v) == [j \in (DOMAIN d) \cup {k} |-> IF j = k THEN v ELSE d[j]]

(* ------------------------------ inputs -------------------------------- *)
\* Tokens of an equation's right-hand side in evaluation order: a hook call,
\* a reference to a variable, or "mayraise", an operation whose outcome
\* depends on the data (log, division) and that raises on some samples.
Hooks == {"noise()", "data()", "coef()"}
\* "noise()?" is a noise() call inside a conditional expression whose
\* condition depends on the data: the call is reached on some samples only.
\* The text of the call is the same, which is what getSEM() searches for.
HookOf(tok) == IF tok = "noise()?" THEN "noise()" ELSE tok

Eq(target, toks, valid) == [target |-> target, toks |-> toks, valid |-> valid]

\* the equation lists (varEquations) a caller can supply
SemE1 == \* A = data() ; B = coef()*log(A) + noise()
  << Eq("A", <<"data()">>, TRUE),
     Eq("B", <<"coef()", "A", "mayraise", "noise()">>, TRUE) >>
SemE2 == \* A = noise() + B ; B = noise()      (A references the later B)
  << Eq("A", <<"noise()", "B">>, TRUE),
     Eq("B", <<"noise()">>, TRUE) >>
SemE3 == \* A = coef() ; B = = A               (the second text does not parse)
  << Eq("A", <<"coef()">>, TRUE),
     Eq("B", <<"A">>, FALSE) >>

SemE4 == \* A = data() ; B = A + (noise() if A > -2 else 0)
  << Eq("A", <<"data()">>, TRUE),
     Eq("B", <<"A", "noise()?">>, TRUE) >>

SemIds == {"E1", "E2", "E3", "E4"}
SemCatalog == [id \in SemIds |->
                 CASE id = "E1" -> SemE1 [] id = "E2" -> SemE2
                   [] id = "E3" -> SemE3 [] OTHER -> SemE4]

\* a declaration rv of the model list: a bare name, or a tuple
\* (name, parents[, observed[, datType]]); len = 0 marks the bare name
Decl(name, len, obs) == [name |-> name, len |-> len, obs |-> obs]

ModM1 == \* [('A', []), ('B', ['A'])]
  << Decl("A", 2, TRUE), Decl("B", 2, TRUE) >>
ModM2 == \* [('A', [], False), 'B'] : A latent, B a bare name
  << Decl("A", 3, FALSE), Decl("B", 0, TRUE) >>

ModIds == {"M1", "M2"}
ModCatalog == [id \in ModIds |-> IF id = "M1" THEN ModM1 ELSE ModM2]

\* the SEM files on disk: path -> what exec(contents) binds
Files == [p \in {"m.py"} |-> [varEquations |-> "E1", model |-> "M2"]]
\* gen_data.py:108-110, the output path of generate(): the input path with
\* its last dot-separated part replaced by csv
OutFileName == [p \in {"m.py"} |-> "m.csv"]
\* the argument triples <<semFilePath, sem, mod>> offered to Gen(...): every
\* shape of absent/given arguments, the in-memory models, a readable file
\* and the empty path
CtorArgs ==
  { <<NoneVal, NoneVal, NoneVal>>, <<"m.py", "E1", "M1">>,
    <<NoneVal, "E1", NoneVal>>, <<NoneVal, NoneVal, "M1">>,
    <<"m.py", "E1", NoneVal>>, <<"m.py", NoneVal, "M1">>,
    <<NoneVal, "E1", "M1">>, <<NoneVal, "E2", "M1">>, <<NoneVal, "E3", "M1">>,
    <<NoneVal, "E4", "M1">>,
    <<"m.py", NoneVal, NoneVal>>, <<"", NoneVal, NoneVal>> }

(* ------------------------------- state -------------------------------- *)
VARIABLES
  varEquations,   \* module global bound by Gen.__init__ (a SemCatalog id)
  model,          \* module global bound by Gen.__init__ (a ModCatalog id)
  RAW_EQUATIONS,  \* module global, gen_data.py:36
  NOISES, NOISE_COUNT, COEFS, COEF_COUNT, CURR_EQUATION,
  smallestStd, largestStd, smallestCoef, largestCoef,
  gens,           \* the Gen instances constructed so far
  seqs,           \* the generator objects returned by samples()
  cur,            \* the generator whose frame is running, 0 when none is
  pos,            \* where the running frame is: [phase, i, t]
  lastCtor,       \* the Gen(...) call made by the latest step, if any
  lastHook,       \* the hook call made by the latest step, if any
  lastSEM,        \* the getSEM() call made by the latest step, if any
  epoch,          \* number of resets so far (the parameter generation)
  born,           \* generation in which each cached entry was drawn
  drv,            \* the generator a running generate() consumes, 0 when none
  lastGen         \* the generate() call that ended in the latest step, if any

stats == <<smallestStd, largestStd, smallestCoef, largestCoef>>
store == <<NOISES, NOISE_COUNT, COEFS, COEF_COUNT, stats>>
globs == <<varEquations, model, RAW_EQUATIONS, CURR_EQUATION>>
vars == <<globs, store, gens, seqs, cur, pos, lastCtor, lastHook, lastSEM,
          epoch, born, drv, lastGen>>

\* the parameter store as one value, for the hooks below
PS == [NOISES |-> NOISES, NOISE_COUNT |-> NOISE_COUNT,
       COEFS |-> COEFS, COEF_COUNT |-> COEF_COUNT,
       smallestStd |-> smallestStd, largestStd |-> largestStd,
       smallestCoef |-> smallestCoef, largestCoef |-> largestCoef]

SetPS(ps) ==
  /\ NOISES' = ps.NOISES
  /\ NOISE_COUNT' = ps.NOISE_COUNT
  /\ COEFS' = ps.COEFS
  /\ COEF_COUNT' = ps.COEF_COUNT
  /\ smallestStd' = ps.smallestStd
  /\ largestStd' = ps.largestStd
  /\ smallestCoef' = ps.smallestCoef
  /\ largestCoef' = ps.largestCoef

(* ------------------------ the random draws ---------------------------- *)
\* The n-th outcome offered to a draw: exponential() gives (n-1)*ExpStep
\* (units of 1e-4), random.choice(DISTRS) the n-th kind (cyclically),
\* normal() the mean MEAN_MEAN, random.choice([-1,1,1,1,1]) -1 for even n.
ExpOutcome(n) == (n - 1) * ExpStep
KindOutcome(n) == DISTRS[((n - 1) % Len(DISTRS)) + 1]
SignOutcome(n) == IF n % 2 = 0 THEN 0 - 1 ELSE 1
\* what one noise() call may draw, and one coef() call
NoiseDraw == {[kind |-> KindOutcome(n), mean |-> MEAN_MEAN, e |-> ExpOutcome(n)] :
                n \in 1..MaxDraws}
CoefDraw == {[e |-> ExpOutcome(n), sign |-> SignOutcome(n)] : n \in 1..MaxDraws}

\* chooseMean(): round(normal(MEAN_MEAN, MEAN_SCALE), 3)
chooseMean(m) == IF m >= 0 THEN Round3(m) ELSE 0 - Round3(0 - m)

\* chooseStd() without its side effect on the run statistics
chooseStdNoStats(ps, e) == [val |-> Round3(e + MIN_STD), ps |-> ps]

\* chooseStd(): the rounded scale, and the run statistics it updates
chooseStd(ps, e) ==
  LET val == Round3(e + MIN_STD) IN
  [val |-> val,
   ps |-> [ps EXCEPT
            !.smallestStd = IF val < @ THEN val ELSE @,
            !.largestStd = IF val > @ THEN val ELSE @]]

\* noise() without the cache lookup: every call draws
noiseRedraw(ps, d) ==
  LET k == ps.NOISE_COUNT
      std == chooseStd(ps, d.e)
      fresh == [kind |-> d.kind, loc |-> chooseMean(d.mean), scale |-> std.val]
  IN [ps |-> [std.ps EXCEPT !.NOISES = DictSet(@, k, fresh),
                            !.NOISE_COUNT = @ + 1],
      index |-> k,
      used |-> fresh,
      offset |-> 0,
      fresh |-> k \notin DOMAIN ps.NOISES]

\* noise() counting two occurrences per call
noiseSkip(ps, d) ==
  LET k == ps.NOISE_COUNT
      hit == k \in DOMAIN ps.NOISES
      std == chooseStd(ps, d.e)
      fresh == [kind |-> d.kind, loc |-> chooseMean(d.mean), scale |-> std.val]
      ps1 == IF hit THEN ps
             ELSE [std.ps EXCEPT !.NOISES = DictSet(@, k, fresh)]
  IN [ps |-> [ps1 EXCEPT !.NOISE_COUNT = @ + 2],
      index |-> k,
      used |-> ps1.NOISES[k],
      offset |-> 0,
      fresh |-> ~hit]

\* noise(): draw-or-reuse the distribution at NOISE_COUNT, then count.
\* The cached string distType(mean,std) is kept as its three parts.
noise(ps, d) ==
  LET k == ps.NOISE_COUNT
      hit == k \in DOMAIN ps.NOISES
      std == chooseStd(ps, d.e)
      fresh == [kind |-> d.kind, loc |-> chooseMean(d.mean), scale |-> std.val]
      ps1 == IF hit THEN ps
             ELSE [std.ps EXCEPT !.NOISES = DictSet(@, k, fresh)]
  IN [ps |-> [ps1 EXCEPT !.NOISE_COUNT = @ + 1],
      index |-> k,
      used |-> ps1.NOISES[k],
      offset |-> 0,
      fresh |-> ~hit]

\* data(): noise() + DATA_OFFSET, the same call with the result shifted
data(ps, d) == [noise(ps, d) EXCEPT !.offset = DATA_OFFSET]

\* coef(): draw-or-reuse the coefficient at COEF_COUNT, then count.
\* The statistics see the magnitude before the sign and the rounding.
coef(ps, d) ==
  LET k == ps.COEF_COUNT
      hit == k \in DOMAIN ps.COEFS
      mag == d.e + MIN_COEF
      val == d.sign * Round3(mag)
      ps1 == IF hit THEN ps
             ELSE [ps EXCEPT
                    !.smallestCoef = IF mag < @ THEN mag ELSE @,
                    !.largestCoef = IF mag > @ THEN mag ELSE @,
                    !.COEFS = DictSet(@, k, val)]
  IN [ps |-> [ps1 EXCEPT !.COEF_COUNT = @ + 1],
      index |-> k,
      used |-> ps1.COEFS[k],
      offset |-> 0,
      fresh |-> ~hit]

(* ------------------------------ getSEM -------------------------------- *)
\* positions of hook h in an equation text, left to right
PosOf(toks, h) ==
  SelectSeq([t \in 1..Len(toks) |-> t], LAMBDA t : HookOf(toks[t]) = h)

OccOf(i, toks, h) ==
  LET ps == PosOf(toks, h)
  IN [n \in 1..Len(ps) |-> [eq |-> i, t |-> ps[n], hook |-> h]]

\* The order in which getSEM() substitutes: equation by equation, and in
\* each text every data(), then every coef(), then every noise().
RECURSIVE Occurrences(_, _)
Occurrences(raw, i) ==
  IF i > Len(raw) THEN <<>>
  ELSE OccOf(i, raw[i].toks, "data()") \o OccOf(i, raw[i].toks, "coef()")
         \o OccOf(i, raw[i].toks, "noise()") \o Occurrences(raw, i + 1)

\* largest number of coef() texts in one equation list
MaxCoefOcc ==
  LET n(sem) == Len(SelectSeq(Occurrences(sem, 1), LAMBDA o : o.hook = "coef()"))
  IN CHOOSE m \in 0..8 : /\ \A id \in SemIds : n(SemCatalog[id]) <= m
                         /\ \E id \in SemIds : n(SemCatalog[id]) = m

\* the draws one getSEM() call may need, one per coef() index
CoefDrawsFor(raw) ==
  IF raw = <<>> THEN {[k \in 0..(MaxCoefOcc - 1) |-> CHOOSE d \in CoefDraw : TRUE]}
  ELSE [0..(MaxCoefOcc - 1) -> CoefDraw]

AnyNoiseDraw == CHOOSE d \in NoiseDraw : TRUE

\* the substitution loops of getSEM() over the occurrences occs[n..]
RECURSIVE Replay(_, _, _, _)
Replay(st, occs, n, draws) ==
  IF n > Len(occs) \/ st.err # "none" THEN st
  ELSE
    LET o == occs[n] IN
    IF o.hook = "coef()" THEN
      LET r == coef(st.ps, draws[st.ps.COEF_COUNT])
      IN Replay([st EXCEPT !.ps = r.ps,
                           !.subst = Append(@, [eq |-> o.eq, t |-> o.t,
                                                hook |-> o.hook,
                                                index |-> r.index,
                                                value |-> r.used])],
                occs, n + 1, draws)
    ELSE
      IF st.ps.NOISE_COUNT \notin DOMAIN st.ps.NOISES
      THEN [st EXCEPT !.err = "KeyError"]
      ELSE
        LET r == noise(st.ps, AnyNoiseDraw)
        IN Replay([st EXCEPT !.ps = r.ps,
                             !.subst = Append(@, [eq |-> o.eq, t |-> o.t,
                                                  hook |-> o.hook,
                                                  index |-> r.index,
                                                  value |-> r.used])],
                  occs, n + 1, draws)

\* getSEM(): zero the module counters, replay the texts of RAW_EQUATIONS,
\* append the statistics block
getSEM(ps, raw, draws) ==
  LET ps0 == [ps EXCEPT !.NOISE_COUNT = 0, !.COEF_COUNT = 0]
      r == Replay([ps |-> ps0, err |-> "none", subst |-> <<>>],
                  Occurrences(raw, 1), 1, draws)
  IN [ps |-> r.ps,
      err |-> r.err,
      report |-> [lines |-> Len(raw),
                  subst |-> r.subst,
                  stats |-> r.ps.largestCoef > 0 \/ r.ps.largestStd > 0]]

(* ---------------------------- construction ---------------------------- *)
\* the assertion without its "but not both" half
ArgsAcceptedLax(semFilePath, sem, mod) ==
  \/ semFilePath # NoneVal
  \/ sem # NoneVal /\ mod # NoneVal

\* gen_data.py:53, the assertion of Gen.__init__
ArgsAccepted(semFilePath, sem, mod) ==
  \/ semFilePath # NoneVal /\ sem = NoneVal /\ mod = NoneVal
  \/ semFilePath = NoneVal /\ sem # NoneVal /\ mod # NoneVal

\* the observed flag ignored
ObservedAlways(rv) == TRUE

\* gen_data.py:70-75, the observed flag of one declaration
Observed(rv) == IF rv.len >= 3 THEN rv.obs ELSE TRUE

\* gen_data.py:68-84, the names of the observed declarations, in order
VarNamesOf(decls) ==
  LET obs == SelectSeq(decls, Observed)
  IN [n \in 1..Len(obs) |-> obs[n].name]

\* gen_data.py:67, RAW_EQUATIONS = varEquations inside __init__, which has
\* no global statement for it: the name bound is local to __init__ and the
\* module's RAW_EQUATIONS keeps its value
InitRawEquations(raw, ve) == raw

NoHook == [by |-> 0, hook |-> "none", index |-> 0, fresh |-> FALSE, born |-> 0,
           used |-> NoneVal, offset |-> 0]
NoCtor == [semFilePath |-> NoneVal, sem |-> NoneVal, mod |-> NoneVal,
           result |-> "none"]
NoGen == [called |-> FALSE, result |-> "none", name |-> NoneVal,
          header |-> <<>>, lines |-> 0, count |-> 0]
\* no sample pass completed yet
NoPass == [epoch |-> 0, calls |-> <<>>]
NoSEM == [called |-> FALSE, err |-> "none",
          report |-> [lines |-> 0, subst |-> <<>>, stats |-> FALSE]]

Init ==
  /\ varEquations = Undefined
  /\ model = Undefined
  /\ RAW_EQUATIONS = <<>>
  /\ NOISES = EmptyDict
  /\ NOISE_COUNT = 0
  /\ COEFS = EmptyDict
  /\ COEF_COUNT = 0
  /\ CURR_EQUATION = 0
  /\ smallestStd = HUGE
  /\ largestStd = 0
  /\ smallestCoef = HUGE
  /\ largestCoef = 0
  /\ gens = <<>>
  /\ seqs = <<>>
  /\ cur = 0
  /\ pos = [phase |-> "idle", i |-> 0, t |-> 0]
  /\ lastCtor = NoCtor
  /\ lastHook = NoHook
  /\ lastSEM = NoSEM
  /\ epoch = 0
  /\ born = [n |-> EmptyDict, c |-> EmptyDict]
  /\ drv = 0
  /\ lastGen = NoGen

\* A generator that returned or raised has released its frame: what is left
\* of it is what the caller saw (rows produced, the error) and its arguments.
Finished(q, pc, err) ==
  [q EXCEPT !.pc = pc, !.err = err, !.cEquations = <<>>, !.cSem = NoneVal,
            !.cVarNames = <<>>, !.locals = {}, !.evald = <<>>, !.failed = {},
            !.row = <<>>, !.calls = <<>>, !.last = NoPass]

\* the caller is between calls: no generator frame is running and no
\* generate() is in its loop
Free == cur = 0 /\ drv = 0

\* a step outside generate()
NoDrive == drv' = drv /\ lastGen' = NoGen

\* A step of generator s inside the loop of generate(), gen_data.py:114-120:
\* when the generator is exhausted the lines collected (the header and one
\* line per row) are written and the path returned; an exception raised by
\* the generator leaves generate() before the file is opened.
Drive(s) ==
  IF drv = s /\ seqs'[s].pc \in {"done", "raised"}
  THEN /\ drv' = 0
       /\ lastGen' =
            IF seqs'[s].pc = "done"
            THEN [called |-> TRUE, result |-> "ok",
                  name |-> OutFileName[gens[seqs[s].gen].semFileName],
                  header |-> gens[seqs[s].gen].varNames,
                  lines |-> seqs'[s].produced,
                  count |-> seqs[s].count]
            ELSE [NoGen EXCEPT !.called = TRUE, !.result = seqs'[s].err,
                               !.count = seqs[s].count]
  ELSE NoDrive

\* a step that makes none of the observed calls
Quiet ==
  /\ lastCtor' = NoCtor
  /\ lastHook' = NoHook
  /\ lastSEM' = NoSEM

\* Gen(semFilePath, sem, mod), gen_data.py:45-84
Construct(semFilePath, sem, mod) ==
  /\ Free
  /\ LET ok == ArgsAccepted(semFilePath, sem, mod)
         \* line 59: an empty path is falsy and takes the sem/mod branch
         fromFile == ok /\ semFilePath \notin {NoneVal, ""}
         ve == IF fromFile THEN Files[semFilePath].varEquations ELSE sem
         mo == IF fromFile THEN Files[semFilePath].model ELSE mod
         result == IF ~ok THEN "AssertionError"
                   ELSE IF mo = NoneVal THEN "TypeError" ELSE "ok"
     IN /\ Len(gens) < MaxGens
        /\ lastCtor' = [semFilePath |-> semFilePath, sem |-> sem, mod |-> mod,
                        result |-> result]
        /\ IF ok
           THEN /\ varEquations' = ve
                /\ model' = mo
                /\ RAW_EQUATIONS' =
                     InitRawEquations(RAW_EQUATIONS,
                                      IF ve = NoneVal THEN <<>> ELSE SemCatalog[ve])
           ELSE UNCHANGED <<varEquations, model, RAW_EQUATIONS>>
        /\ gens' = IF result = "ok"
                   THEN Append(gens, [semFileName |-> semFilePath, sem |-> sem,
                                      mod |-> mod,
                                      varNames |-> VarNamesOf(ModCatalog[mo])])
                   ELSE gens
  /\ lastHook' = NoHook
  /\ lastSEM' = NoSEM
  /\ NoDrive
  /\ UNCHANGED <<CURR_EQUATION, store, seqs, cur, pos, epoch, born>>

(* ------------------------------ samples ------------------------------- *)
\* g.samples(count, reset): calling a generator function runs none of its
\* body; it returns the generator object
NewGenerator(g, count, reset) ==
  [gen |-> g, count |-> count, resetArg |-> reset, reset |-> reset,
   pc |-> "created", produced |-> 0, err |-> "none",
   cEquations |-> <<>>, cSem |-> NoneVal, cVarNames |-> <<>>,
   locals |-> {}, evald |-> <<>>, failed |-> {}, reported |-> <<>>,
   row |-> <<>>, epoch0 |-> 0,
   calls |-> <<>>, last |-> NoPass, pulls |-> 0, passes |-> 0]

\* samples() running its reset when it is called
CallSamplesEager(g, count, reset) ==
  /\ Free
  /\ g \in 1..Len(gens)
  /\ Len(seqs) < MaxSeqs
  /\ seqs' = Append(seqs, NewGenerator(g, count, reset))
  /\ Quiet
  /\ NoDrive
  /\ IF reset
     THEN /\ NOISES' = EmptyDict
          /\ COEFS' = EmptyDict
          /\ smallestStd' = HUGE
          /\ largestStd' = 0
          /\ smallestCoef' = HUGE
          /\ largestCoef' = 0
          /\ born' = [n |-> EmptyDict, c |-> EmptyDict]
     ELSE UNCHANGED <<NOISES, COEFS, stats, born>>
  /\ UNCHANGED <<globs, NOISE_COUNT, COEF_COUNT, gens, cur, pos, epoch>>

CallSamples(g, count, reset) ==
  /\ Free
  /\ g \in 1..Len(gens)
  /\ Len(seqs) < MaxSeqs
  /\ seqs' = Append(seqs, NewGenerator(g, count, reset))
  /\ Quiet
  /\ NoDrive
  /\ UNCHANGED <<globs, store, gens, cur, pos, epoch, born>>

\* the reset argument ignored / the first-time rule left out
EffectiveResetNever(raw, reset) == FALSE
EffectiveResetArgOnly(raw, reset) == reset

\* gen_data.py:143-145
EffectiveReset(raw, reset) == IF raw = <<>> THEN TRUE ELSE reset

\* what compiling the equation list gives: an error, or the units
CompileAll(ve) ==
  IF ve = NoneVal THEN [err |-> "TypeError", units |-> <<>>]
  ELSE IF \E n \in 1..Len(SemCatalog[ve]) : ~SemCatalog[ve][n].valid
       THEN [err |-> "SyntaxError", units |-> <<>>]
       ELSE [err |-> "none", units |-> SemCatalog[ve]]

\* first pull of a generator: gen_data.py:143-163
Begin(s) ==
  /\ cur = 0
  /\ drv \in {0, s}
  /\ s \in 1..Len(seqs)
  /\ seqs[s].pc = "created"
  /\ LET reset == EffectiveReset(RAW_EQUATIONS, seqs[s].resetArg)
         c == CompileAll(varEquations)
     IN /\ IF reset
           THEN /\ NOISES' = EmptyDict
                /\ COEFS' = EmptyDict
                /\ smallestStd' = HUGE
                /\ largestStd' = 0
                /\ smallestCoef' = HUGE
                /\ largestCoef' = 0
                /\ epoch' = epoch + 1
                /\ born' = [n |-> EmptyDict, c |-> EmptyDict]
           ELSE UNCHANGED <<NOISES, COEFS, stats, epoch, born>>
        /\ seqs' = [seqs EXCEPT ![s] =
             IF c.err # "none"
             THEN Finished([@ EXCEPT !.reset = reset, !.epoch0 = epoch',
                                      !.pulls = @ + 1],
                           "raised", c.err)
             ELSE [@ EXCEPT !.reset = reset,
                            !.epoch0 = epoch',
                            !.pulls = @ + 1,
                            !.pc = "running",
                            !.cEquations = c.units,
                            !.cSem = varEquations,
                            !.cVarNames = gens[seqs[s].gen].varNames]]
        /\ cur' = IF c.err = "none" THEN s ELSE 0
        /\ pos' = IF c.err = "none" THEN [phase |-> "loop", i |-> 0, t |-> 0]
                  ELSE [phase |-> "idle", i |-> 0, t |-> 0]
  /\ Quiet
  /\ Drive(s)
  /\ UNCHANGED <<globs, NOISE_COUNT, COEF_COUNT, gens>>

\* the sample loop running one pass too many
MoreSamplesOneMore(q) == q.produced <= q.count

\* gen_data.py:165, for sample in range(samples): another pass is due
MoreSamples(q) == q.produced < q.count

\* head of the sample loop, gen_data.py:165-168 and 180-181: entered after
\* Begin, and by the pull that resumes a generator suspended at its yield
NextSample(s) ==
  /\ s \in 1..Len(seqs)
  /\ \/ cur = s /\ pos.phase = "loop"
     \/ cur = 0 /\ drv \in {0, s} /\ seqs[s].pc = "suspended"
  /\ IF MoreSamples(seqs[s])
     THEN /\ NOISE_COUNT' = 0
          /\ COEF_COUNT' = 0
          /\ seqs' = [seqs EXCEPT ![s] =
               [@ EXCEPT !.pc = "running", !.evald = <<>>, !.failed = {},
                         !.row = <<>>, !.calls = <<>>,
                         !.passes = @ + 1,
                         !.pulls = IF cur = 0 THEN @ + 1 ELSE @]]
          /\ cur' = s
          /\ pos' = IF Len(seqs[s].cEquations) = 0
                    THEN [phase |-> "project", i |-> 0, t |-> 0]
                    ELSE [phase |-> "eq", i |-> 1, t |-> 1]
     ELSE /\ seqs' = [seqs EXCEPT ![s] =
               Finished([@ EXCEPT !.pulls = IF cur = 0 THEN @ + 1 ELSE @],
                        "done", "none")]
          /\ cur' = 0
          /\ pos' = [phase |-> "idle", i |-> 0, t |-> 0]
          /\ UNCHANGED <<NOISE_COUNT, COEF_COUNT>>
  /\ Quiet
  /\ Drive(s)
  /\ UNCHANGED <<globs, NOISES, COEFS, stats, gens, epoch, born>>

\* the generation stamps after a step that may have drawn
BornAfter(ps) ==
  [n |-> [k \in DOMAIN ps.NOISES |->
            IF k \in DOMAIN born.n THEN born.n[k] ELSE epoch],
   c |-> [k \in DOMAIN ps.COEFS |->
            IF k \in DOMAIN born.c THEN born.c[k] ELSE epoch]]

Idle == [phase |-> "idle", i |-> 0, t |-> 0]

\* a hook call made by the running frame s
HookCall(s, name, r) ==
  /\ SetPS(r.ps)
  /\ born' = BornAfter(r.ps)
  /\ lastHook' = [by |-> s, hook |-> name, index |-> r.index,
                  fresh |-> r.fresh, used |-> r.used, offset |-> r.offset,
                  born |-> born'[IF name = "coef()" THEN "c" ELSE "n"][r.index]]

\* the hook call made at the token at pos, as the one-element list of the
\* calls a step adds to the pass
CallAt(tok) == << [hook |-> HookOf(tok), eq |-> pos.i, t |-> pos.t] >>

\* the unit loop leaving after the first statement that completes
AdvanceSkip(s, called) ==
  LET q == seqs[s]
      eq == q.cEquations[pos.i]
  IN IF pos.t < Len(eq.toks)
     THEN /\ pos' = [pos EXCEPT !.t = @ + 1]
          /\ seqs' = [seqs EXCEPT ![s] = [@ EXCEPT !.calls = @ \o called]]
          /\ cur' = cur
     ELSE /\ seqs' = [seqs EXCEPT ![s] =
               [@ EXCEPT !.locals = @ \cup {eq.target},
                         !.evald = Append(@, pos.i),
                         !.calls = @ \o called]]
          /\ pos' = [phase |-> "project", i |-> 0, t |-> 0]
          /\ cur' = cur

\* the token at pos was evaluated (making the hook calls in called): go on
\* in the text, or finish the statement (the assignment binds the target in
\* the frame) and move to the next compiled unit, gen_data.py:169-173
Advance(s, called) ==
  LET q == seqs[s]
      eq == q.cEquations[pos.i]
  IN IF pos.t < Len(eq.toks)
     THEN /\ pos' = [pos EXCEPT !.t = @ + 1]
          /\ seqs' = [seqs EXCEPT ![s] = [@ EXCEPT !.calls = @ \o called]]
          /\ cur' = cur
     ELSE /\ seqs' = [seqs EXCEPT ![s] =
               [@ EXCEPT !.locals = @ \cup {eq.target},
                         !.evald = Append(@, pos.i),
                         !.calls = @ \o called]]
          /\ pos' = IF pos.i < Len(q.cEquations)
                    THEN [phase |-> "eq", i |-> pos.i + 1, t |-> 1]
                    ELSE [phase |-> "project", i |-> 0, t |-> 0]
          /\ cur' = cur

\* an except clause that swallows the error and goes on with the next unit
HandleContinue(s, draws) ==
  /\ seqs' = [seqs EXCEPT ![s] =
       [@ EXCEPT !.failed = @ \cup {pos.i}, !.evald = Append(@, pos.i)]]
  /\ cur' = cur
  /\ pos' = IF pos.i < Len(seqs[s].cEquations)
            THEN [phase |-> "eq", i |-> pos.i + 1, t |-> 1]
            ELSE [phase |-> "project", i |-> 0, t |-> 0]
  /\ lastSEM' = NoSEM
  /\ UNCHANGED <<store, born>>

\* the except clause, gen_data.py:174-176: print RAW_EQUATIONS[i], then
\* print(self.getSEM()).  An exception raised here leaves the generator.
Handle(s, draws) ==
  LET q == seqs[s]
      i == pos.i
  IN IF i > Len(RAW_EQUATIONS)
     THEN /\ seqs' = [seqs EXCEPT ![s] = Finished(@, "raised", "IndexError")]
          /\ cur' = 0
          /\ pos' = Idle
          /\ lastSEM' = NoSEM
          /\ UNCHANGED <<store, born>>
     ELSE LET g == getSEM(PS, RAW_EQUATIONS, draws) IN
          /\ SetPS(g.ps)
          /\ born' = BornAfter(g.ps)
          /\ lastSEM' = [called |-> TRUE,
                         err |-> g.err, report |-> g.report]
          /\ IF g.err # "none"
             THEN /\ seqs' = [seqs EXCEPT ![s] =
                       Finished([@ EXCEPT !.reported = Append(@, i)],
                                "raised", g.err)]
                  /\ cur' = 0
                  /\ pos' = Idle
             ELSE /\ seqs' = [seqs EXCEPT ![s] =
                       [@ EXCEPT !.failed = @ \cup {i},
                                 !.evald = Append(@, i),
                                 !.reported = Append(@, i)]]
                  /\ cur' = cur
                  /\ pos' = IF i < Len(q.cEquations)
                            THEN [phase |-> "eq", i |-> i + 1, t |-> 1]
                            ELSE [phase |-> "project", i |-> 0, t |-> 0]

\* one step of exec(varEquation), gen_data.py:169-176: the next token of
\* the statement, and the except clause when it raises
EvalStep(s) ==
  /\ cur = s
  /\ pos.phase = "eq"
  /\ CURR_EQUATION' = pos.i - 1
  /\ LET tok == seqs[s].cEquations[pos.i].toks[pos.t] IN
     CASE tok \in {"noise()", "data()"} ->
            \E d \in NoiseDraw :
              /\ HookCall(s, tok, IF tok = "data()" THEN data(PS, d)
                                                    ELSE noise(PS, d))
              /\ Advance(s, CallAt(tok))
              /\ lastSEM' = NoSEM
       [] tok = "noise()?" ->
            \* the conditional expression: its branch with the call, or not
            \E taken \in BOOLEAN :
              IF taken
              THEN \E d \in NoiseDraw :
                     /\ HookCall(s, HookOf(tok), noise(PS, d))
                     /\ Advance(s, CallAt(tok))
                     /\ lastSEM' = NoSEM
              ELSE /\ Advance(s, <<>>)
                   /\ lastHook' = NoHook /\ lastSEM' = NoSEM
                   /\ UNCHANGED <<store, born>>
       [] tok = "coef()" ->
            \E d \in CoefDraw :
              /\ HookCall(s, tok, coef(PS, d))
              /\ Advance(s, CallAt(tok))
              /\ lastSEM' = NoSEM
       [] tok = "mayraise" ->
            \E raises \in BOOLEAN :
              IF raises
              THEN /\ \E draws \in CoefDrawsFor(RAW_EQUATIONS) : Handle(s, draws)
                   /\ lastHook' = NoHook
              ELSE /\ Advance(s, <<>>)
                   /\ lastHook' = NoHook /\ lastSEM' = NoSEM
                   /\ UNCHANGED <<store, born>>
       [] OTHER ->
            \* a name: looked up in the frame (NameError when unbound)
            IF tok \in seqs[s].locals
            THEN /\ Advance(s, <<>>)
                 /\ lastHook' = NoHook /\ lastSEM' = NoSEM
                 /\ UNCHANGED <<store, born>>
            ELSE /\ \E draws \in CoefDrawsFor(RAW_EQUATIONS) : Handle(s, draws)
                 /\ lastHook' = NoHook
  /\ lastCtor' = NoCtor
  /\ Drive(s)
  /\ UNCHANGED <<varEquations, model, RAW_EQUATIONS, gens, epoch>>

\* gen_data.py:177-179: read the observed variables and yield the row
Project(s) ==
  /\ cur = s
  /\ pos.phase = "project"
  /\ LET q == seqs[s] IN
     IF \A n \in 1..Len(q.cVarNames) : q.cVarNames[n] \in q.locals
     THEN seqs' = [seqs EXCEPT ![s] =
            [@ EXCEPT !.pc = "suspended",
                      !.produced = @ + 1,
                      !.last = [epoch |-> epoch, calls |-> q.calls],
                      !.row = [n \in 1..Len(q.cVarNames) |->
                                 [var |-> q.cVarNames[n], sem |-> q.cSem]]]]
     ELSE seqs' = [seqs EXCEPT ![s] = Finished(@, "raised", "NameError")]
  /\ cur' = 0
  /\ pos' = Idle
  /\ Quiet
  /\ Drive(s)
  /\ UNCHANGED <<globs, store, gens, epoch, born>>

\* g.getSEM() called by the user, gen_data.py:192-226
GetSEM(g) ==
  /\ Free
  /\ g \in 1..Len(gens)
  /\ \E draws \in CoefDrawsFor(RAW_EQUATIONS) :
       LET r == getSEM(PS, RAW_EQUATIONS, draws) IN
       /\ SetPS(r.ps)
       /\ born' = BornAfter(r.ps)
       /\ lastSEM' = [called |-> TRUE,
                      err |-> r.err, report |-> r.report]
  /\ lastCtor' = NoCtor
  /\ lastHook' = NoHook
  /\ NoDrive
  /\ UNCHANGED <<globs, gens, seqs, cur, pos, epoch>>

\* g.generate(count, reset), gen_data.py:86-120: the assertion (on an
\* instance built from sem and mod the call raises before it has done
\* anything, which leaves every variable as it is), then the generator from
\* self.samples(...), which the loop at line 114 consumes to its end (see
\* Drive) before anything else runs
Generate(g, count, reset) ==
  /\ Free
  /\ g \in 1..Len(gens)
  /\ gens[g].semFileName # NoneVal
  /\ Len(seqs) < MaxSeqs
  /\ seqs' = Append(seqs, NewGenerator(g, count, reset))
  /\ drv' = Len(seqs) + 1
  /\ lastGen' = NoGen
  /\ Quiet
  /\ UNCHANGED <<globs, store, gens, cur, pos, epoch, born>>

Next ==
  \/ \E a \in CtorArgs : Construct(a[1], a[2], a[3])
  \/ \E g \in 1..MaxGens, n \in 1..MaxCount, r \in BOOLEAN : CallSamples(g, n, r)
  \/ \E s \in 1..MaxSeqs : Begin(s)
  \/ \E s \in 1..MaxSeqs : NextSample(s)
  \/ \E s \in 1..MaxSeqs : EvalStep(s)
  \/ \E s \in 1..MaxSeqs : Project(s)
  \/ \E g \in 1..MaxGens : GetSEM(g)
  \/ \E g \in 1..MaxGens, n \in 1..MaxCount, r \in BOOLEAN : Generate(g, n, r)

Spec == Init /\ [][Next]_vars

(* ================================ claims =============================== *)
SeqIds == 1..Len(seqs)

InitialStats ==
  /\ smallestStd = HUGE
  /\ largestStd = 0
  /\ smallestCoef = HUGE
  /\ largestCoef = 0

\* C1: within one parameter generation (a step that is no reset) every
\* entry of NOISES and of COEFS keeps its value, and a noise()/data()/coef()
\* call at an index that is already cached uses exactly the cached entry.
C1_CachedIdentityIsFixed ==
  [][ epoch' = epoch =>
        /\ \A k \in DOMAIN NOISES :
             k \in DOMAIN NOISES' /\ NOISES'[k] = NOISES[k]
        /\ \A k \in DOMAIN COEFS :
             k \in DOMAIN COEFS' /\ COEFS'[k] = COEFS[k]
        /\ (lastHook'.hook \in {"noise()", "data()"}
              /\ lastHook'.index \in DOMAIN NOISES)
             => lastHook'.used = NOISES[lastHook'.index] /\ ~lastHook'.fresh
        /\ (lastHook'.hook = "coef()" /\ lastHook'.index \in DOMAIN COEFS)
             => lastHook'.used = COEFS[lastHook'.index] /\ ~lastHook'.fresh ]_vars

\* a second sample pass has reused the cached noise at index 1 and the
\* cached coefficient
C1_Witness ==
  \E s \in SeqIds :
    /\ seqs[s].produced = 1
    /\ lastHook.by = s
    /\ lastHook.hook = "noise()"
    /\ lastHook.index = 1
    /\ ~lastHook.fresh
    /\ DOMAIN COEFS = {0}

\* C2: when a samples(N, reset=False) sequence was consumed and a second
\* samples(N, reset=False) sequence of the same Gen is pulled, no step of
\* the second sequence changes a coefficient the first one left in COEFS.
C2_ReuseAcrossCalls ==
  [][ \A s \in SeqIds :
        ( /\ (cur = 0 /\ cur' = s) \/ cur = s
          /\ ~seqs[s].resetArg
          /\ DOMAIN COEFS # {}
          /\ \E t \in SeqIds : /\ t # s
                               /\ seqs[t].pc = "done"
                               /\ ~seqs[t].resetArg
                               /\ seqs[t].gen = seqs[s].gen
                               /\ seqs[t].count = seqs[s].count )
        => \A k \in DOMAIN COEFS :
             k \in DOMAIN COEFS' /\ COEFS'[k] = COEFS[k] ]_vars

\* C3: a sequence called with reset=True has emptied NOISES and COEFS and
\* restored the four statistics when its first sample pass starts, and
\* every entry one of its hook calls uses was drawn in its own generation
\* or a later one.
C3_ResetTrueStartsFresh ==
  \A s \in SeqIds :
    (cur = s /\ seqs[s].resetArg) =>
      /\ ( /\ seqs[s].produced = 0
           /\ \/ pos.phase = "loop"
              \/ pos.phase = "eq" /\ pos.i = 1 /\ pos.t = 1 )
           => NOISES = EmptyDict /\ COEFS = EmptyDict /\ InitialStats
      /\ seqs[s].epoch0 >= 1
      /\ lastHook.by = s => lastHook.born >= seqs[s].epoch0

\* a reset=True sequence that follows an earlier generation makes a fresh
\* draw
C3_Witness ==
  \E s \in SeqIds :
    /\ cur = s
    /\ seqs[s].resetArg
    /\ \E t \in SeqIds : t # s /\ seqs[t].pc = "done"
    /\ epoch = 2
    /\ lastHook.by = s
    /\ lastHook.fresh

\* C4: the first sequence ever pulled runs as if reset were True even when
\* it was called with reset=False: its local reset is True, the reset
\* branch ran (first generation), caches and statistics are clear when its
\* first pass starts.
C4_FirstCallResets ==
  \A s \in SeqIds :
    ( /\ cur = s
      /\ ~seqs[s].resetArg
      /\ pos.phase = "loop"
      /\ seqs[s].produced = 0
      /\ \A t \in SeqIds \ {s} : seqs[t].pc = "created" )
    => /\ seqs[s].reset
       /\ epoch = 1
       /\ seqs[s].epoch0 = 1
       /\ NOISES = EmptyDict /\ COEFS = EmptyDict /\ InitialStats

C4_Witness ==
  \E s \in SeqIds :
    /\ cur = s
    /\ ~seqs[s].resetArg
    /\ pos.phase = "loop"
    /\ seqs[s].produced = 0
    /\ \A t \in SeqIds \ {s} : seqs[t].pc = "created"

UpTo(n) == [k \in 1..n |-> k]

\* C5: in every pass the counters are zero when the first unit starts, the
\* units run once each in declaration order, and the observed variables
\* are read (and the row yielded) only after the last unit.
C5_PassOrder ==
  \A s \in SeqIds :
    /\ (cur = s /\ pos.phase = "eq")
         => /\ seqs[s].evald = UpTo(pos.i - 1)
            /\ (pos.i = 1 /\ pos.t = 1) => NOISE_COUNT = 0 /\ COEF_COUNT = 0
    /\ (cur = s /\ pos.phase = "project")
         => seqs[s].evald = UpTo(Len(seqs[s].cEquations))
    /\ seqs[s].pc = "suspended"
         => /\ seqs[s].evald = UpTo(Len(seqs[s].cEquations))
            /\ seqs[s].produced >= 1

\* the second row of a sequence was yielded
C5_Witness ==
  \E s \in SeqIds :
    /\ seqs[s].pc = "suspended"
    /\ seqs[s].produced = 2
    /\ Len(seqs[s].evald) = 2

\* C6: a step of equation evaluation never ends the sequence: when a unit
\* raises, the equation is reported and the frame goes on with the next
\* unit.
C6_EquationErrorDoesNotAbort ==
  [][ \A s \in SeqIds :
        (cur = s /\ pos.phase = "eq")
        => /\ seqs'[s].pc = "running"
           /\ cur' = s
           /\ (seqs'[s].failed # seqs[s].failed
                 => seqs'[s].reported = Append(seqs[s].reported, pos.i)) ]_vars

HasInvalid(ve) ==
  ve \in SemIds /\ \E n \in 1..Len(SemCatalog[ve]) : ~SemCatalog[ve][n].valid

\* C7: the first pull of a sequence whose equation list holds a text that
\* does not compile still starts sampling (the sequence is not aborted).
C7_CompileErrorDoesNotAbort ==
  [][ \A s \in SeqIds :
        (cur = 0 /\ seqs[s].pc = "created" /\ seqs'[s].pc # "created"
           /\ HasInvalid(varEquations))
        => seqs'[s].pc = "running" ]_vars

Given(x) == x # NoneVal

\* C8: a Gen(...) call passes the assertion exactly for the two shapes
\* (path only; sem and mod only); for every other shape it raises and
\* leaves the module state, the instances and the generators as they were.
C8_ConstructorShapes ==
  [][ lastCtor'.result # "none" =>
        LET p == Given(lastCtor'.semFilePath)
            e == Given(lastCtor'.sem)
            m == Given(lastCtor'.mod)
            twoShapes == (p /\ ~e /\ ~m) \/ (~p /\ e /\ m)
        IN /\ lastCtor'.result = "AssertionError" <=> ~twoShapes
           /\ ~twoShapes => UNCHANGED <<globs, store, gens, seqs, cur, pos>> ]_vars

\* a call that gives a path together with sem and mod was rejected while
\* an instance and a suspended generator exist
C8_Witness ==
  /\ lastCtor.result = "AssertionError"
  /\ Given(lastCtor.semFilePath) /\ Given(lastCtor.sem) /\ Given(lastCtor.mod)
  /\ Len(gens) = 1
  /\ \E s \in SeqIds : seqs[s].pc = "suspended"

\* the declarations a Gen instance was built from
DeclsOf(g) ==
  ModCatalog[IF Given(g.semFileName) /\ g.semFileName # ""
             THEN Files[g.semFileName].model ELSE g.mod]

ObservedDecls(decls) ==
  SelectSeq(decls, LAMBDA rv : IF rv.len >= 3 THEN rv.obs ELSE TRUE)
LatentCount(decls) ==
  Cardinality({n \in 1..Len(decls) : decls[n].len >= 3 /\ ~decls[n].obs})

\* C9: every yielded row has one entry per observed declaration of its
\* Gen, in declaration order: len(getVariables()) entries, the number of
\* declarations minus the number of latent ones.
C9_RowShape ==
  \A s \in SeqIds :
    seqs[s].pc = "suspended" =>
      LET g == gens[seqs[s].gen]
          row == seqs[s].row
          obs == ObservedDecls(DeclsOf(g))
      IN /\ Len(row) = Len(g.varNames)
         /\ Len(row) = Len(DeclsOf(g)) - LatentCount(DeclsOf(g))
         /\ Len(row) = Len(obs)
         /\ \A n \in 1..Len(row) : row[n].var = obs[n].name

\* a row of a Gen with a latent declaration
C9_Witness ==
  \E s \in SeqIds :
    /\ seqs[s].pc = "suspended"
    /\ LatentCount(DeclsOf(gens[seqs[s].gen])) = 1
    /\ Len(seqs[s].row) = 1

\* the name tok is the target of a unit declared after unit i
DeclaredLater(units, i, tok) ==
  /\ \E j \in (i + 1)..Len(units) : units[j].target = tok
  /\ \A j \in 1..i : units[j].target # tok

C11_PassesCallAlike ==
  [][ \A s \in SeqIds :
        ( /\ cur = s
          /\ pos.phase = "project"
          /\ seqs'[s].pc = "suspended"
          /\ seqs[s].last.epoch = epoch )
        => seqs[s].calls = seqs[s].last.calls ]_vars

\* the equation list a Gen instance was built from
SemOf(g) ==
  IF Given(g.semFileName) /\ g.semFileName # ""
  THEN Files[g.semFileName].varEquations ELSE g.sem

\* a sample pass was completed in the current parameter generation
PassCompleted ==
  \E s \in SeqIds : seqs[s].produced >= 1 /\ seqs[s].epoch0 = epoch

\* C12: a getSEM() call made after a completed sample pass (all instances
\* built from the same equations) returns a report with one realized line
\* per equation, in which every data(), coef() and noise() occurrence was
\* replaced by the entry cached at its index.
C12_RealizedLines ==
  ( /\ lastSEM.called
    /\ cur = 0
    /\ PassCompleted
    /\ \A g \in 1..Len(gens) : SemOf(gens[g]) = varEquations )
  => /\ lastSEM.err = "none"
     /\ lastSEM.report.lines = Len(SemCatalog[varEquations])
     /\ Len(lastSEM.report.subst) = Len(Occurrences(SemCatalog[varEquations], 1))
     /\ \A n \in 1..Len(lastSEM.report.subst) :
          LET o == lastSEM.report.subst[n]
          IN o.value = IF o.hook = "coef()" THEN COEFS[o.index]
                       ELSE NOISES[o.index]

\* C13: a getSEM() call made by the user leaves the per-pass counters
\* NOISE_COUNT and COEF_COUNT, the caches NOISES and COEFS and the four
\* statistics as they were.
C13_GetSEMOnlyReads ==
  [][ (cur = 0 /\ lastSEM'.called)
        => /\ NOISE_COUNT' = NOISE_COUNT
           /\ COEF_COUNT' = COEF_COUNT
           /\ UNCHANGED <<NOISES, COEFS, stats>> ]_vars

\* C14: a getSEM() call made while COEFS is empty, or while NOISES is
\* empty (none drawn in the current generation), returns without error a
\* report that has no statistics block.
C14_NoStatsWithoutDraws ==
  [][ (cur = 0 /\ lastSEM'.called /\ (COEFS = EmptyDict \/ NOISES = EmptyDict))
        => lastSEM'.err = "none" /\ ~lastSEM'.report.stats ]_vars

\* C15: the run statistics change only in a step that draws a new entry or
\* in a reset; a hook call that reuses a cached entry leaves them alone;
\* they return to their initial values in exactly the steps that clear
\* NOISES and COEFS; and the scale of every cached noise lies between
\* smallestStd and largestStd (smallestCoef <= largestCoef once a
\* coefficient is cached).
C15_StatsFollowDraws ==
  /\ [] ( /\ \A k \in DOMAIN NOISES :
               smallestStd <= NOISES[k].scale /\ NOISES[k].scale <= largestStd
          /\ NOISES # EmptyDict => smallestStd <= largestStd
          /\ COEFS # EmptyDict => smallestCoef <= largestCoef )
  /\ [][ /\ (lastHook'.hook # "none" /\ ~lastHook'.fresh) => stats' = stats
         /\ stats' # stats
              => \/ epoch' # epoch
                 \/ DOMAIN NOISES' # DOMAIN NOISES
                 \/ DOMAIN COEFS' # DOMAIN COEFS
         /\ epoch' # epoch
              => NOISES' = EmptyDict /\ COEFS' = EmptyDict /\ InitialStats'
         /\ ( \/ NOISES # EmptyDict /\ NOISES' = EmptyDict
              \/ COEFS # EmptyDict /\ COEFS' = EmptyDict
              \/ ~InitialStats /\ InitialStats' )
              => NOISES' = EmptyDict /\ COEFS' = EmptyDict /\ InitialStats' ]_vars

\* a pass has reused a cached noise while two different scales and a
\* coefficient are recorded
C15_Witness ==
  /\ lastHook.hook = "noise()"
  /\ ~lastHook.fresh
  /\ smallestStd < largestStd
  /\ COEFS # EmptyDict
  /\ smallestCoef <= largestCoef

\* C16: a sequence that was consumed to its end without an error yielded
\* exactly count rows and yields nothing after it terminated, no sequence
\* yields more than count rows, and a generate(count) call that returns
\* wrote the header (the observed names) and exactly count data lines.
C16_ExactlyCountRows ==
  /\ [] ( /\ \A s \in SeqIds :
               /\ seqs[s].pc = "done" => seqs[s].produced = seqs[s].count
               /\ seqs[s].produced <= seqs[s].count
          /\ lastGen.result = "ok"
               => /\ lastGen.lines = lastGen.count
                  /\ lastGen.name = "m.csv"
                  /\ \E g \in 1..Len(gens) :
                       /\ gens[g].semFileName # NoneVal
                       /\ lastGen.header = VarNamesOf(DeclsOf(gens[g])) )
  /\ [][ \A s \in SeqIds : seqs[s].pc = "done" => seqs'[s] = seqs[s] ]_vars

\* generate(2) has returned after writing two data lines
C16_Witness ==
  /\ lastGen.result = "ok"
  /\ lastGen.count = 2
  /\ lastGen.lines = 2
  /\ \E s \in SeqIds : seqs[s].pc = "done" /\ seqs[s].produced = 2

\* C17: every cached entry a sequence uses, in any of its passes, belongs to
\* the parameter generation of its first pass, however its pulls are
\* interleaved with other sequences.
C17_OneGenerationPerSequence ==
  \A s \in SeqIds :
    (lastHook.by = s /\ lastHook.hook # "none")
      => lastHook.born = seqs[s].epoch0

\* C18: a sequence evaluates the equations its own Gen was built from, and
\* every row it yields was computed by them.
C18_SamplesOwnEquations ==
  \A s \in SeqIds :
    seqs[s].pc \in {"running", "suspended"}
      => /\ seqs[s].cSem = SemOf(gens[seqs[s].gen])
         /\ \A n \in 1..Len(seqs[s].row) :
              seqs[s].row[n].sem = SemOf(gens[seqs[s].gen])

Size(d) == Cardinality(DOMAIN d)

\* C19: the keys of NOISES and of COEFS are always 0..n-1; after a
\* noise()/data() call NOISE_COUNT <= |NOISES| and after a coef() call
\* COEF_COUNT <= |COEFS|; a noise()/data() call adds one to NOISE_COUNT and
\* leaves COEF_COUNT and COEFS alone, a coef() call adds one to COEF_COUNT
\* and leaves NOISE_COUNT and NOISES alone.
C19_IndexSpaces ==
  /\ [] ( /\ DOMAIN NOISES = 0..(Size(NOISES) - 1)
          /\ DOMAIN COEFS = 0..(Size(COEFS) - 1)
          /\ lastHook.hook \in {"noise()", "data()"} => NOISE_COUNT <= Size(NOISES)
          /\ lastHook.hook = "coef()" => COEF_COUNT <= Size(COEFS) )
  /\ [][ /\ lastHook'.hook \in {"noise()", "data()"}
              => /\ NOISE_COUNT' = NOISE_COUNT + 1
                 /\ lastHook'.index = NOISE_COUNT
                 /\ UNCHANGED <<COEF_COUNT, COEFS>>
         /\ lastHook'.hook = "coef()"
              => /\ COEF_COUNT' = COEF_COUNT + 1
                 /\ lastHook'.index = COEF_COUNT
                 /\ UNCHANGED <<NOISE_COUNT, NOISES>> ]_vars

\* a noise() call used index 1 after data() had used index 0 and coef() its
\* own index 0
C19_Witness ==
  /\ lastHook.hook = "noise()"
  /\ lastHook.index = 1
  /\ NOISE_COUNT = 2
  /\ COEF_COUNT = 1
  /\ DOMAIN NOISES = {0, 1}
  /\ DOMAIN COEFS = {0}

\* C20: a step that creates a sequence changes nothing in the parameter
\* store (a sequence not yet pulled has not reset anything); a reset
\* happens only in the first pull of a sequence; and a sequence that was
\* pulled j times and is suspended has run exactly j passes and yielded j
\* rows (never more passes than pulls).
C20_SamplesIsLazy ==
  /\ [] ( \A s \in SeqIds :
            /\ seqs[s].pc = "created"
                 => seqs[s].pulls = 0 /\ seqs[s].passes = 0 /\ seqs[s].epoch0 = 0
            /\ seqs[s].pc = "suspended"
                 => /\ seqs[s].passes = seqs[s].pulls
                    /\ seqs[s].produced = seqs[s].pulls
            /\ seqs[s].passes <= seqs[s].pulls )
  /\ [][ /\ Len(seqs') > Len(seqs) => UNCHANGED <<store, epoch>>
         /\ (epoch' # epoch \/ (NOISES' = EmptyDict /\ NOISES # EmptyDict))
              => \E s \in SeqIds : seqs[s].pc = "created" /\ seqs[s].pulls = 0
                                    /\ seqs'[s].pulls = 1 ]_vars

\* a reset=True sequence was created and not pulled while entries are
\* cached, and another sequence stopped after one of its two pulls
C20_Witness ==
  \E s, t \in SeqIds :
    /\ seqs[s].pc = "created"
    /\ seqs[s].resetArg
    /\ COEFS # EmptyDict
    /\ seqs[t].pc = "suspended"
    /\ seqs[t].count = 2
    /\ seqs[t].pulls = 1
    /\ seqs[t].passes = 1

====
